---- MODULE Spec2Model ----
(***************************************************************************)
(* MPEG-TS section-table registry of tvheadend                             *)
(* (src/src/input/mpegts/mpegts_table.c): the per-multiplex list of table  *)
(* filters with its cached count and deferred queue, the register-or-rebind*)
(* operation, destroy / flush_all, the section dispatcher and the          *)
(* fast-switch scan coordinator.                                           *)
(*                                                                         *)
(* Control-path operations hold mm_tables_lock from entry to exit, so each *)
(* is one atomic action.  The data path (dispatch) takes no lock except    *)
(* inside mpegts_table_fastswitch, so it is split into one action per      *)
(* unlocked stretch and interleaves with the control path.                 *)
(***************************************************************************)
EXTENDS Integers, Sequences, FiniteSets, TLC

(* ------------------------------------------------------------------ *)
(* Bounds of the model                                                 *)
(* ------------------------------------------------------------------ *)

\* number of table objects that can be allocated at the same time
MaxTables == 2
\* cap of the per-table success counter mt_count
MaxCount == 1
\* cap of the per-table error counter mt_err_log.count
MaxErr == 11

Handles == 1..MaxTables
NoTable == 0

(* ------------------------------------------------------------------ *)
(* Helpers on sequences                                                *)
(* ------------------------------------------------------------------ *)

Range(s) == { s[i] : i \in 1..Len(s) }

Remove(s, x) == SelectSeq(s, LAMBDA y : y # x)

(* ------------------------------------------------------------------ *)
(* Table objects                                                       *)
(* ------------------------------------------------------------------ *)

\* a table slot: memory that is free ("free") or an allocated table ("alloc")
BlankTable(a) ==
  [ alloc         |-> a,
    mt_arefcount  |-> 0,
    mt_name       |-> "",
    mt_callback   |-> 0,
    mt_opaque     |-> 0,
    mt_pid        |-> 0,
    mt_flags      |-> {},
    mt_table      |-> 0,
    mt_mask       |-> 0,
    mt_destroyed  |-> FALSE,
    mt_subscribed |-> FALSE,
    mt_defer_cmd  |-> "NONE",
    mt_complete   |-> FALSE,
    mt_working    |-> FALSE,
    mt_count      |-> 0,
    mt_err_count  |-> 0,
    mt_warnings   |-> 0,
    mt_state      |-> FALSE ]

\* the multiplex fields this file reads and the collaborator maintains
EmptyMux ==
  [ mm_tables       |-> << >>,
    mm_num_tables   |-> 0,
    mm_defer_tables |-> << >>,
    mm_scan_state   |-> "IDLE",
    mm_tables_lock  |-> "free" ]

VARIABLES
  mm,     \* the multiplex: mm_tables, mm_num_tables, mm_defer_tables, mm_scan_state
  mt,     \* the table objects, by handle
  fault,  \* "none", or how the process died: "abort", "assert", "double_free", ...
  last,   \* the last completed control-path call: arguments, result, collaborator calls
  dp,     \* the data path: where the in-flight dispatch call stands
  scan_done  \* whether mpegts_mux_scan_done has been signalled for the current scan

vars == << mm, mt, fault, last, dp, scan_done >>

\* the state the locked operations transform
World ==
  [ mm |-> mm, mt |-> mt, fault |-> fault,
    log |-> << >>, ret |-> NoTable, created |-> FALSE, passed |-> FALSE ]

SetFault(w, f) == IF w.fault = "none" THEN [w EXCEPT !.fault = f] ELSE w

Field(w, t, f, v) == [w EXCEPT !.mt[t][f] = v]

(* ------------------------------------------------------------------ *)
(* mm_tables_lock                                                      *)
(* ------------------------------------------------------------------ *)

\* pthread_mutex_lock: a thread that finds the mutex held never gets on
pthread_mutex_lock(w) ==
  IF w.mm.mm_tables_lock # "free"
    THEN SetFault(w, "deadlock")
    ELSE [w EXCEPT !.mm.mm_tables_lock = "held"]

pthread_mutex_unlock(w) == [w EXCEPT !.mm.mm_tables_lock = "free"]

lock_assert(w) ==
  IF w.mm.mm_tables_lock # "held" THEN SetFault(w, "lock_assert") ELSE w

(* ------------------------------------------------------------------ *)
(* Reference counting                                                  *)
(* ------------------------------------------------------------------ *)

\* mpegts_table_release_: the table is torn down and freed
mpegts_table_release_(w, t) ==
  IF w.mt[t].alloc # "alloc"
    THEN SetFault(w, "double_free")
    ELSE [w EXCEPT !.mt[t] = BlankTable("free")]

mpegts_table_grab(w, t) ==
  IF w.mt[t].alloc # "alloc"
    THEN SetFault(w, "use_after_free")
    ELSE Field(w, t, "mt_arefcount", w.mt[t].mt_arefcount + 1)

\* mpegts_table_release: drop one reference, free with the last one
mpegts_table_release(w, t) ==
  IF w.mt[t].alloc # "alloc"
    THEN SetFault(w, "use_after_free")
    ELSE IF w.mt[t].mt_arefcount = 1
      THEN mpegts_table_release_(w, t)
      ELSE Field(w, t, "mt_arefcount", w.mt[t].mt_arefcount - 1)

(* ------------------------------------------------------------------ *)
(* The collaborator's hooks (multiplex layer)                          *)
(* ------------------------------------------------------------------ *)

\* the hooks and the queue drain leave a note of each call, with the table's
\* flags and pid at that moment
Logged(w, fn, t, subscribe) ==
  [w EXCEPT !.log = Append(@, [ fn |-> fn, mt |-> t, subscribe |-> subscribe,
                                flags |-> w.mt[t].mt_flags, pid |-> w.mt[t].mt_pid ])]

Enqueue(w, t, cmd) ==
  LET g == mpegts_table_grab(w, t)
  IN [g EXCEPT !.mt[t].mt_defer_cmd = cmd,
               !.mm.mm_defer_tables = Append(@, t)]

\* open_table: a new table enters mm_tables and is counted; an existing entry
\* stays where it is.  want_subscribed starts delivery, at once or, for a
\* table that defers its commands, through the deferred queue.
mm_open_table(w, t, subscribe) ==
  LET w1 == Logged(w, "open_table", t, subscribe)
      w2 == IF t \in Range(w1.mm.mm_tables)
              THEN w1
              ELSE [w1 EXCEPT !.mm.mm_tables = << t >> \o @,
                              !.mm.mm_num_tables = @ + 1]
  IN IF ~subscribe THEN w2
     ELSE IF "MT_DEFER" \in w2.mt[t].mt_flags
       THEN IF w2.mt[t].mt_defer_cmd = "OPEN" THEN w2 ELSE Enqueue(w2, t, "OPEN")
       ELSE Field(w2, t, "mt_subscribed", TRUE)

\* close_table: the table leaves mm_tables, the count drops, delivery stops.
\* A table that defers its commands has its pending open cancelled, or is
\* queued (holding a reference) for the deferred close.
mm_close_table(w, t) ==
  LET w1 == Logged(w, "close_table", t, FALSE)
      w2 == [w1 EXCEPT !.mm.mm_tables = Remove(@, t),
                       !.mm.mm_num_tables = @ - 1,
                       !.mt[t].mt_subscribed = FALSE]
  IN IF "MT_DEFER" \notin w2.mt[t].mt_flags THEN w2
     ELSE IF w2.mt[t].mt_defer_cmd = "OPEN"
       THEN mpegts_table_release(
              [w2 EXCEPT !.mm.mm_defer_tables = Remove(@, t),
                         !.mt[t].mt_defer_cmd = "NONE"], t)
       ELSE IF w2.mt[t].mt_defer_cmd = "CLOSE" THEN w2
       ELSE Enqueue(w2, t, "CLOSE")

(* ------------------------------------------------------------------ *)
(* mpegts_table_consistency_check                                      *)
(* ------------------------------------------------------------------ *)

RECURSIVE ListCount(_)
ListCount(s) == IF s = << >> THEN 0 ELSE 1 + ListCount(Tail(s))

mpegts_table_consistency_check(w) ==
  LET w0 == lock_assert(w)
      i  == w0.mm.mm_num_tables
      c  == ListCount(w0.mm.mm_tables)
  IN IF i # c THEN SetFault(w0, "abort") ELSE w0

(* ------------------------------------------------------------------ *)
(* mpegts_table_destroy_ / mpegts_table_destroy                        *)
(* ------------------------------------------------------------------ *)

\* a destroy that frees the table outright, whatever its reference count
mpegts_table_destroy_frees(w, t) ==
  LET w1 == mpegts_table_consistency_check(lock_assert(w))
      w2 == Field(w1, t, "mt_destroyed", TRUE)
      w3 == mm_close_table(w2, t)
      w4 == mpegts_table_consistency_check(w3)
  IN mpegts_table_release_(w4, t)

\* a destroy that only marks the table and leaves the rest for later
mpegts_table_destroy_marks(w, t) ==
  LET w1 == mpegts_table_consistency_check(lock_assert(w))
  IN Field(w1, t, "mt_destroyed", TRUE)

mpegts_table_destroy_(w, t) ==
  LET w1 == mpegts_table_consistency_check(lock_assert(w))
      w2 == Field(w1, t, "mt_destroyed", TRUE)
      w3 == mm_close_table(w2, t)
      w4 == mpegts_table_consistency_check(w3)
  IN mpegts_table_release(w4, t)

mpegts_table_destroy(w, t) ==
  pthread_mutex_unlock(mpegts_table_destroy_(pthread_mutex_lock(w), t))

(* ------------------------------------------------------------------ *)
(* mpegts_table_add                                                    *)
(* ------------------------------------------------------------------ *)

\* a scan that moves on when the callbacks are equal instead of different
AddSkips_sameCallback(e, callback, opaque, name, pid) ==
  \/ e.mt_opaque # opaque
  \/ /\ e.mt_pid < 0
     /\ e.mt_name # name
  \/ /\ e.mt_pid >= 0
     /\ pid >= 0
     /\ (e.mt_pid # pid \/ e.mt_callback = callback)
  \/ /\ e.mt_pid >= 0
     /\ pid < 0
     /\ e.mt_name # name

\* a scan that moves on from an unbound entry when the names are equal
AddSkips_sameName(e, callback, opaque, name, pid) ==
  \/ e.mt_opaque # opaque
  \/ /\ e.mt_pid < 0
     /\ e.mt_name = name
  \/ /\ e.mt_pid >= 0
     /\ pid >= 0
     /\ (e.mt_pid # pid \/ e.mt_callback # callback)
  \/ /\ e.mt_pid >= 0
     /\ pid < 0
     /\ e.mt_name # name

\* the loop body's "continue" conditions for list entry e
AddSkips(e, callback, opaque, name, pid) ==
  \/ e.mt_opaque # opaque
  \/ /\ e.mt_pid < 0
     /\ e.mt_name # name
  \/ /\ e.mt_pid >= 0
     /\ pid >= 0
     /\ (e.mt_pid # pid \/ e.mt_callback # callback)
  \/ /\ e.mt_pid >= 0
     /\ pid < 0
     /\ e.mt_name # name

\* LIST_FOREACH: the first entry the loop does not skip, or NoTable
RECURSIVE AddFind(_, _, _, _, _, _)
AddFind(w, s, callback, opaque, name, pid) ==
  IF s = << >> THEN NoTable
  ELSE IF AddSkips(w.mt[Head(s)], callback, opaque, name, pid)
    THEN AddFind(w, Tail(s), callback, opaque, name, pid)
    ELSE Head(s)

\* a rebind that forgets to store the pid
AddExisting_keepsPid(w, t, tableid, callback, name, flags, pid) ==
  LET e == w.mt[t]
      w1 == IF e.mt_pid < 0
              THEN mm_open_table(
                     [w EXCEPT !.mt[t].mt_callback = callback,
                               !.mt[t].mt_table = tableid], t, TRUE)
            ELSE IF pid >= 0
              THEN w
            ELSE IF "MT_SKIPSUBS" \notin flags /\ ~e.mt_subscribed
              THEN mm_open_table(w, t, TRUE)
            ELSE w
      w2 == mpegts_table_consistency_check(w1)
  IN [pthread_mutex_unlock(w2) EXCEPT !.ret = t]

\* a pid+callback match that opens the filter again
AddExisting_reopens(w, t, tableid, callback, name, flags, pid) ==
  LET e == w.mt[t]
      w1 == IF e.mt_pid < 0
              THEN mm_open_table(
                     [w EXCEPT !.mt[t].mt_callback = callback,
                               !.mt[t].mt_pid = pid,
                               !.mt[t].mt_table = tableid], t, TRUE)
            ELSE IF pid >= 0
              THEN mm_open_table(w, t, TRUE)
            ELSE IF "MT_SKIPSUBS" \notin flags /\ ~e.mt_subscribed
              THEN mm_open_table(w, t, TRUE)
            ELSE w
      w2 == mpegts_table_consistency_check(w1)
  IN [pthread_mutex_unlock(w2) EXCEPT !.ret = t]

\* what the loop does to the entry it stops at, before returning it
AddExisting(w, t, tableid, callback, name, flags, pid) ==
  LET e == w.mt[t]
      w1 == IF e.mt_pid < 0
              THEN mm_open_table(
                     [w EXCEPT !.mt[t].mt_callback = callback,
                               !.mt[t].mt_pid = pid,
                               !.mt[t].mt_table = tableid], t, TRUE)
            ELSE IF pid >= 0
              THEN w
            ELSE IF "MT_SKIPSUBS" \notin flags /\ ~e.mt_subscribed
              THEN mm_open_table(w, t, TRUE)
            ELSE w
      w2 == mpegts_table_consistency_check(w1)
  IN [pthread_mutex_unlock(w2) EXCEPT !.ret = t]

\* calloc: the lowest free slot (freed memory is handed out again)
Calloc(w) ==
  IF \E h \in Handles : w.mt[h].alloc = "free"
    THEN CHOOSE h \in Handles :
           /\ w.mt[h].alloc = "free"
           /\ \A g \in Handles : w.mt[g].alloc = "free" => h <= g
    ELSE NoTable

\* a subscription decision that takes MT_SCANSUBS for MT_SKIPSUBS
AddSubscribe_neverScan(w, flags, pid) ==
  IF pid < 0 THEN FALSE
  ELSE IF "MT_SKIPSUBS" \in flags THEN FALSE
  ELSE IF "MT_SCANSUBS" \in flags THEN FALSE
  ELSE TRUE

\* the initial subscription of a new table
AddSubscribe(w, flags, pid) ==
  IF pid < 0 THEN FALSE
  ELSE IF "MT_SKIPSUBS" \in flags THEN FALSE
  ELSE IF "MT_SCANSUBS" \in flags THEN w.mm.mm_scan_state # "IDLE"
  ELSE TRUE

AddCreate(w, t, tableid, mask, callback, opaque, name, flags, pid) ==
  LET new == [BlankTable("alloc") EXCEPT
                !.mt_arefcount = 1,
                !.mt_name      = name,
                !.mt_callback  = callback,
                !.mt_opaque    = opaque,
                !.mt_pid       = pid,
                !.mt_flags     = flags \ {"MT_SKIPSUBS", "MT_SCANSUBS"},
                !.mt_table     = tableid,
                !.mt_mask      = mask]
      w1 == [w EXCEPT !.mt[t] = new]
      w2 == mm_open_table(w1, t, AddSubscribe(w, flags, pid))
      w3 == mpegts_table_consistency_check(w2)
  IN [pthread_mutex_unlock(w3) EXCEPT !.ret = t, !.created = TRUE]

mpegts_table_add(w, tableid, mask, callback, opaque, name, flags, pid) ==
  LET w0 == mpegts_table_consistency_check(pthread_mutex_lock(w))
      t  == AddFind(w0, w0.mm.mm_tables, callback, opaque, name, pid)
  IN IF t # NoTable
       THEN AddExisting(w0, t, tableid, callback, name, flags, pid)
       ELSE IF Calloc(w0) = NoTable THEN w0
       ELSE AddCreate(w0, Calloc(w0), tableid, mask, callback, opaque, name, flags, pid)

(* ------------------------------------------------------------------ *)
(* mpegts_table_flush_all                                              *)
(* ------------------------------------------------------------------ *)

\* a drain that closes each queued table before releasing it
RECURSIVE FlushDeferred_closes(_)
FlushDeferred_closes(w) ==
  IF w.mm.mm_defer_tables = << >> \/ w.fault # "none" THEN w
  ELSE LET t  == Head(w.mm.mm_defer_tables)
           w1 == [w EXCEPT !.mm.mm_defer_tables = Tail(@),
                           !.mt[t].mt_defer_cmd = "NONE",
                           !.mt[t].mt_flags = @ \ {"MT_DEFER"}]
       IN FlushDeferred_closes(mpegts_table_release(mm_close_table(w1, t), t))

\* while ((mt = TAILQ_FIRST(&mm->mm_defer_tables))) ...
RECURSIVE FlushDeferred(_)
FlushDeferred(w) ==
  IF w.mm.mm_defer_tables = << >> \/ w.fault # "none" THEN w
  ELSE LET t  == Head(w.mm.mm_defer_tables)
           w1 == [Logged(w, "drain", t, FALSE) EXCEPT
                    !.mm.mm_defer_tables = Tail(@),
                    !.mt[t].mt_defer_cmd = "NONE"]
       IN FlushDeferred(mpegts_table_release(w1, t))

\* a second loop written like the first: the table is unlinked and released
\* without going through destroy
FlushOne_unlinks(w, t) ==
  mpegts_table_release([w EXCEPT !.mm.mm_tables = Remove(@, t),
                                 !.mt[t].mt_destroyed = TRUE], t)

\* a second loop that leaves the MT_DEFER flag set
FlushOne_keepsDefer(w, t) ==
  LET w2 == mpegts_table_consistency_check(w)
      w3 == mpegts_table_destroy_(w2, t)
  IN mpegts_table_consistency_check(w3)

\* one turn of the second loop, on the first live table
FlushOne(w, t) ==
  LET w1 == Field(w, t, "mt_flags", w.mt[t].mt_flags \ {"MT_DEFER"})
      w2 == mpegts_table_consistency_check(w1)
      w3 == mpegts_table_destroy_(w2, t)
  IN mpegts_table_consistency_check(w3)

\* while ((mt = LIST_FIRST(&mm->mm_tables))) ...
RECURSIVE FlushLive(_)
FlushLive(w) ==
  IF w.mm.mm_tables = << >> \/ w.fault # "none" THEN w
  ELSE FlushLive(FlushOne(w, Head(w.mm.mm_tables)))

FlushAsserts(w) ==
  IF /\ w.mm.mm_num_tables = 0
     /\ w.mm.mm_defer_tables = << >>
     /\ w.mm.mm_tables = << >>
    THEN w
    ELSE SetFault(w, "assert")

mpegts_table_flush_all(w) ==
  LET w0 == mpegts_table_consistency_check(pthread_mutex_lock(w))
      w1 == FlushDeferred(w0)
      w2 == FlushLive(w1)
  IN pthread_mutex_unlock(FlushAsserts(w2))

(* ------------------------------------------------------------------ *)
(* mpegts_table_fastswitch                                             *)
(* ------------------------------------------------------------------ *)

\* a loop that gives up only on a table both incomplete and working
RECURSIVE FastswitchLoop_and(_, _)
FastswitchLoop_and(tab, s) ==
  IF s = << >> THEN TRUE
  ELSE LET e == tab[Head(s)]
       IN IF ~("MT_QUICKREQ" \in e.mt_flags) /\ ~e.mt_working
            THEN FastswitchLoop_and(tab, Tail(s))
          ELSE IF ~e.mt_complete /\ e.mt_working
            THEN FALSE
          ELSE FastswitchLoop_and(tab, Tail(s))

\* the loop over mm_tables under the lock: TRUE when it runs to the end,
\* FALSE when it returns early
RECURSIVE FastswitchLoop(_, _)
FastswitchLoop(tab, s) ==
  IF s = << >> THEN TRUE
  ELSE LET e == tab[Head(s)]
       IN IF ~("MT_QUICKREQ" \in e.mt_flags) /\ ~e.mt_working
            THEN FastswitchLoop(tab, Tail(s))
          ELSE IF ~e.mt_complete \/ e.mt_working
            THEN FALSE
          ELSE FastswitchLoop(tab, Tail(s))

\* a scan that returns early without giving the lock back
FastswitchLocked_keepsLock(w) ==
  LET w1 == pthread_mutex_lock(w)
  IN IF FastswitchLoop(w1.mt, w1.mm.mm_tables)
       THEN [pthread_mutex_unlock(w1) EXCEPT !.passed = TRUE]
       ELSE w1

\* lock; LIST_FOREACH ...; unlock on either way out.  passed tells whether
\* the loop ran to its end
FastswitchLocked(w) ==
  LET w1 == pthread_mutex_lock(w)
  IN IF FastswitchLoop(w1.mt, w1.mm.mm_tables)
       THEN [pthread_mutex_unlock(w1) EXCEPT !.passed = TRUE]
       ELSE pthread_mutex_unlock(w1)

(* ------------------------------------------------------------------ *)
(* mpegts_table_dispatch                                               *)
(* ------------------------------------------------------------------ *)

RECURSIVE BitAnd(_, _)
BitAnd(a, b) ==
  IF a = 0 \/ b = 0 THEN 0
  ELSE (a % 2) * (b % 2) + 2 * BitAnd(a \div 2, b \div 2)

\* r - 3 is computed in size_t: below 3 it wraps to a value above every
\* 12-bit section length
SizeLess(len, r)    == IF r < 3 THEN TRUE ELSE len < r - 3
SizeDiffers(len, r) == IF r < 3 THEN TRUE ELSE len # r - 3

\* a dispatch without the entry test
DispatchDestroyed_unchecked(e) == FALSE

\* the entry test of dispatch
DispatchDestroyed(e) == e.mt_destroyed

\* the gates without the table mask test
SectionGate_noMask(e, sec) ==
  IF sec.tid = 114 THEN "stuffing"
  ELSE IF "MT_CRC" \in e.mt_flags /\ sec.crc # 0 THEN "crc"
  ELSE IF SizeLess(sec.len, sec.r) THEN "short"
  ELSE "pass"

\* the gates without the CRC test
SectionGate_noCrc(e, sec) ==
  IF sec.tid = 114 THEN "stuffing"
  ELSE IF SizeLess(sec.len, sec.r) THEN "short"
  ELSE IF BitAnd(sec.tid, e.mt_mask) # e.mt_table THEN "mask"
  ELSE "pass"

\* the gates with the stuffing test after the mask test
SectionGate_stuffingLast(e, sec) ==
  IF "MT_CRC" \in e.mt_flags /\ sec.crc # 0 THEN "crc"
  ELSE IF SizeLess(sec.len, sec.r) THEN "short"
  ELSE IF BitAnd(sec.tid, e.mt_mask) # e.mt_table THEN "mask"
  ELSE IF sec.tid = 114 THEN "stuffing"
  ELSE "pass"

\* the gates a section passes before the callback, in the order of the code
SectionGate(e, sec) ==
  IF sec.tid = 114 THEN "stuffing"
  ELSE IF "MT_CRC" \in e.mt_flags /\ sec.crc # 0 THEN "crc"
  ELSE IF SizeLess(sec.len, sec.r) THEN "short"
  ELSE IF BitAnd(sec.tid, e.mt_mask) # e.mt_table THEN "mask"
  ELSE "pass"

\* the length handed to the callback
CallbackLen(e, sec) ==
  LET len == IF "MT_CRC" \in e.mt_flags THEN sec.len - 4 ELSE sec.len
  IN IF "MT_FULL" \in e.mt_flags THEN len + 3 ELSE len

\* a test that lets every successful return through
WantsFastswitch_anySuccess(e, ret) ==
  ret >= 0 /\ e.mt_flags \cap {"MT_QUICKREQ", "MT_FASTSWITCH"} # {}

\* whether the result of the callback leads into fast-switch evaluation
WantsFastswitch(e, ret) ==
  ret = 0 /\ e.mt_flags \cap {"MT_QUICKREQ", "MT_FASTSWITCH"} # {}

\* dvb_table_reset: the accumulated reassembly state is dropped
dvb_table_reset(e) == [e EXCEPT !.mt_state = FALSE]

\* the number of occurrences a table's error log lets through
LogLimit == 10

\* if (tvhlog_limit(&mt->mt_err_log, 10)) tvhwarn(...): every occurrence is
\* counted, the first LogLimit of them are logged
tvhlog_limit(e) ==
  [e EXCEPT !.mt_err_count = @ + 1,
            !.mt_warnings  = IF e.mt_err_count < LogLimit THEN @ + 1 ELSE @]

(* ------------------------------------------------------------------ *)
(* Control-path actions                                                *)
(* ------------------------------------------------------------------ *)

NoCall ==
  [ op |-> "none", args |-> << >>, ret |-> NoTable, created |-> FALSE,
    log |-> << >>, after |-> "other", seq |-> 0 ]

\* how an add call relates to the call completed just before it
After(op, a) ==
  IF op # "add" \/ last.op # "add" \/ last.args.opaque # a.opaque THEN "other"
  ELSE IF last.args.pid < 0 /\ a.pid >= 0 /\ last.args.name = a.name
    THEN "unbound_then_pid"
  ELSE IF last.args.pid >= 0 /\ a.pid = last.args.pid
    THEN IF a.callback # last.args.callback THEN "other_callback"
         ELSE IF a.name = last.args.name THEN "repeated"
         ELSE "other"
  ELSE "other"

\* the call's effect on the program state; with rec the call is also noted
\* in last: its arguments, its result, whether it allocated, the collaborator
\* calls it made, and how it relates to the call before it
Commit(w, op, args, rec) ==
  /\ mm' = w.mm
  /\ mt' = w.mt
  /\ fault' = w.fault
  /\ last' = IF rec
               THEN [ op |-> op, args |-> args, ret |-> w.ret, created |-> w.created,
                      log |-> w.log, after |-> After(op, args),
                      seq |-> 1 - last.seq ]
               ELSE last

\* a is the argument list: tableid, mask, callback, opaque, name, flags, pid
AddCall(a, rec) ==
  /\ fault = "none"
  /\ LET w == mpegts_table_add(World, a.tableid, a.mask, a.callback, a.opaque,
                               a.name, a.flags, a.pid)
     IN /\ w.ret # NoTable
        /\ Commit(w, "add", a, rec)
  /\ UNCHANGED << dp, scan_done >>

\* the caller destroys a table it holds a handle of: one that is still live
DestroyCall(t, rec) ==
  /\ fault = "none"
  /\ t \in Range(mm.mm_tables)
  /\ Commit(mpegts_table_destroy(World, t), "destroy", [ mt |-> t ], rec)
  /\ UNCHANGED << dp, scan_done >>

FlushAllCall(rec) ==
  /\ fault = "none"
  /\ Commit(mpegts_table_flush_all(World), "flush_all", << >>, rec)
  /\ UNCHANGED << dp, scan_done >>

Add(a)     == AddCall(a, TRUE)
Destroy(t) == DestroyCall(t, TRUE)
FlushAll   == FlushAllCall(TRUE)

\* the same calls where the specification keeps no record of them
AddQuiet(a)     == AddCall(a, FALSE)
DestroyQuiet(t) == DestroyCall(t, FALSE)
FlushAllQuiet   == FlushAllCall(FALSE)

(* ------------------------------------------------------------------ *)
(* Collaborator actions                                                *)
(* ------------------------------------------------------------------ *)

\* the input thread takes the head of the deferred queue, carries the
\* command out and drops the queue's reference
DeferProcess ==
  /\ fault = "none"
  /\ mm.mm_defer_tables # << >>
  /\ LET t  == Head(mm.mm_defer_tables)
         w1 == [World EXCEPT !.mm.mm_defer_tables = Tail(@),
                             !.mt[t].mt_defer_cmd = "NONE",
                             !.mt[t].mt_subscribed =
                                (mt[t].mt_defer_cmd = "OPEN" /\ ~mt[t].mt_destroyed)]
         w2 == mpegts_table_release(w1, t)
     IN /\ mm' = w2.mm
        /\ mt' = w2.mt
        /\ fault' = w2.fault
  /\ UNCHANGED << last, dp, scan_done >>

\* the scan state machine of the multiplex moves on
SetScanState(s) ==
  /\ fault = "none"
  /\ mm.mm_scan_state # s
  /\ mm' = [mm EXCEPT !.mm_scan_state = s]
  /\ scan_done' = FALSE
  /\ UNCHANGED << mt, fault, last, dp >>

(* ------------------------------------------------------------------ *)
(* Data-path actions: one dispatch call at a time                      *)
(* ------------------------------------------------------------------ *)

\* exit names the return statement a finished dispatch call left through
IdleDp ==
  [ pc |-> "idle", mt |-> NoTable, sec |-> << >>, ret |-> 0, len |-> 0, exit |-> "" ]

Leave(how) == [dp EXCEPT !.pc = "leave", !.exit = how]

\* a step of the data path touches a table that was already freed
Stale == mt[dp.mt].alloc # "alloc"

UseAfterFree ==
  /\ fault' = "use_after_free"
  /\ UNCHANGED << mm, mt, last, dp, scan_done >>

\* the input thread picks a subscribed live table under the lock, takes a
\* reference and calls dispatch with a section
DispatchEnter(t, sec) ==
  /\ fault = "none"
  /\ dp.pc = "idle"
  /\ t \in Range(mm.mm_tables)
  /\ mt[t].mt_subscribed
  /\ mt[t].mt_count < MaxCount
  /\ mt[t].mt_err_count < MaxErr
  /\ LET w == mpegts_table_grab(World, t)
     IN /\ mt' = w.mt
        /\ fault' = w.fault
  /\ dp' = [ pc |-> "enter", mt |-> t, sec |-> sec, ret |-> 0, len |-> 0, exit |-> "" ]
  /\ UNCHANGED << mm, last, scan_done >>

\* if(mt->mt_destroyed) return;
DispatchCheck ==
  /\ fault = "none"
  /\ dp.pc = "enter"
  /\ IF Stale THEN UseAfterFree
     ELSE /\ dp' = IF DispatchDestroyed(mt[dp.mt])
                     THEN Leave("destroyed")
                     ELSE [dp EXCEPT !.pc = "validate"]
          /\ UNCHANGED << mm, mt, fault, last, scan_done >>

\* the section is validated and, when it passes, handed to the callback,
\* which returns ret and leaves the table's run state as eff says
DispatchSection(ret, eff) ==
  /\ fault = "none"
  /\ dp.pc = "validate"
  /\ IF Stale THEN UseAfterFree
     ELSE LET e == mt[dp.mt]
              g == SectionGate(e, dp.sec)
          IN /\ IF g = "pass"
                  THEN /\ mt' = [mt EXCEPT ![dp.mt].mt_complete = eff.complete,
                                           ![dp.mt].mt_working  = eff.working,
                                           ![dp.mt].mt_state    = eff.state]
                       /\ dp' = [dp EXCEPT !.pc = "returned", !.ret = ret,
                                           !.len = CallbackLen(e, dp.sec)]
                  ELSE /\ mt' = [mt EXCEPT ![dp.mt] =
                                  IF g = "stuffing"
                                    THEN dvb_table_reset(
                                           IF SizeDiffers(dp.sec.len, dp.sec.r)
                                             THEN tvhlog_limit(e) ELSE e)
                                  ELSE IF g = "crc" THEN tvhlog_limit(e)
                                  ELSE e]
                       /\ dp' = Leave(g)
             /\ UNCHANGED << mm, fault, last, scan_done >>

\* if(ret >= 0) mt->mt_count++;  if(!ret && flags) mpegts_table_fastswitch()
DispatchResult ==
  /\ fault = "none"
  /\ dp.pc = "returned"
  /\ IF Stale THEN UseAfterFree
     ELSE /\ mt' = IF dp.ret >= 0
                     THEN [mt EXCEPT ![dp.mt].mt_count = @ + 1]
                     ELSE mt
          /\ dp' = IF WantsFastswitch(mt[dp.mt], dp.ret)
                     THEN [dp EXCEPT !.pc = "fastswitch"]
                     ELSE Leave("done")
          /\ UNCHANGED << mm, fault, last, scan_done >>

\* if(mm->mm_scan_state != MM_SCAN_STATE_ACTIVE) return;
FastswitchEnter ==
  /\ fault = "none"
  /\ dp.pc = "fastswitch"
  /\ dp' = IF mm.mm_scan_state # "ACTIVE"
             THEN Leave("not_active")
             ELSE [dp EXCEPT !.pc = "fs_scan"]
  /\ UNCHANGED << mm, mt, fault, last, scan_done >>

\* lock; LIST_FOREACH ...; unlock
FastswitchScan ==
  /\ fault = "none"
  /\ dp.pc = "fs_scan"
  /\ LET w == FastswitchLocked(World)
     IN /\ mm' = w.mm
        /\ fault' = w.fault
        /\ dp' = IF w.passed
                   THEN [dp EXCEPT !.pc = "fs_done"]
                   ELSE Leave("not_complete")
  /\ UNCHANGED << mt, last, scan_done >>

\* mpegts_mux_scan_done(mm, buf, 1)
FastswitchDone ==
  /\ fault = "none"
  /\ dp.pc = "fs_done"
  /\ scan_done' = TRUE
  /\ dp' = Leave("scan_done")
  /\ UNCHANGED << mm, mt, fault, last >>

\* dispatch has returned: the input thread drops its reference
DispatchLeave ==
  /\ fault = "none"
  /\ dp.pc = "leave"
  /\ LET w == mpegts_table_release(World, dp.mt)
     IN /\ mt' = w.mt
        /\ fault' = w.fault
  /\ dp' = IdleDp
  /\ UNCHANGED << mm, last, scan_done >>

DataPath(secs, rets, effs) ==
  \/ \E t \in Handles, sec \in secs : DispatchEnter(t, sec)
  \/ DispatchCheck
  \/ \E ret \in rets, eff \in effs : DispatchSection(ret, eff)
  \/ DispatchResult
  \/ FastswitchEnter
  \/ FastswitchScan
  \/ FastswitchDone
  \/ DispatchLeave

(* ------------------------------------------------------------------ *)
(* Specifications                                                      *)
(* ------------------------------------------------------------------ *)

Init ==
  /\ mm = EmptyMux
  /\ mt = [ h \in Handles |-> BlankTable("free") ]
  /\ fault = "none"
  /\ last = NoCall
  /\ dp = IdleDp
  /\ scan_done = FALSE

Call(tableid, callback, opaque, name, flags, pid) ==
  [ tableid |-> tableid, mask |-> 255, callback |-> callback, opaque |-> opaque,
    name |-> name, flags |-> flags, pid |-> pid ]

\* Registry bookkeeping: add / destroy / flush_all with deferred commands
RegCalls ==
  { Call(2, 1, 1, name, flags, pid) :
      name \in {"X", "Y"}, flags \in { {}, {"MT_DEFER"} }, pid \in {-1, 5} }

NextReg ==
  \/ \E a \in RegCalls : Add(a)
  \/ \E t \in Handles : Destroy(t)
  \/ FlushAll
  \/ DeferProcess

SpecReg == Init /\ [][NextReg]_vars

\* Deduplication: owners, names, pids and callbacks that meet in the list scan
DedupeCalls ==
  { Call(2, 1, 1, name, {}, pid) : name \in {"X", "Y"}, pid \in {-1, 5} }
  \cup { Call(2, 2, 1, "X", {}, 5), Call(3, 1, 1, "X", {}, 5), Call(2, 1, 1, "X", {}, 6),
         Call(2, 1, 2, "X", {}, -1), Call(2, 1, 2, "X", {}, 5) }

NextDedupe ==
  \/ \E a \in DedupeCalls : Add(a)
  \/ \E t \in Handles : Destroy(t)
  \/ FlushAll

SpecDedupe == Init /\ [][NextDedupe]_vars

\* Lifetime: one dispatch in flight against destroy / flush_all
GoodSection == [ tid |-> 2, len |-> 5, r |-> 8, crc |-> 0 ]
OtherSection == [ tid |-> 3, len |-> 5, r |-> 8, crc |-> 0 ]

NoEffect == [ complete |-> FALSE, working |-> FALSE, state |-> FALSE ]

Completed == [ complete |-> TRUE, working |-> FALSE, state |-> FALSE ]

LifeCalls ==
  { Call(2, 1, 1, "X", flags, 5) : flags \in { {}, {"MT_DEFER"} } }
  \cup { Call(2, 2, 1, "Y", {"MT_QUICKREQ"}, 5) }

NextLife ==
  \/ \E a \in LifeCalls : AddQuiet(a)
  \/ \E t \in Handles : DestroyQuiet(t)
  \/ FlushAllQuiet
  \/ DeferProcess
  \/ SetScanState("ACTIVE")
  \/ DataPath({GoodSection, OtherSection}, {-1, 0}, {Completed})

SpecLife == Init /\ [][NextLife]_vars

\* Scan coordination: callbacks complete tables while a scan is active
ScanEffects ==
  { [ complete |-> c, working |-> k, state |-> FALSE ] : c \in BOOLEAN, k \in BOOLEAN }

ScanCalls ==
  { Call(2, 1, 1, "X", {"MT_QUICKREQ"}, 5), Call(2, 2, 1, "Y", {"MT_QUICKREQ"}, 5),
    Call(2, 1, 1, "Z", {"MT_FASTSWITCH"}, 6) }

NextScan ==
  \/ \E a \in ScanCalls : AddQuiet(a)
  \/ \E s \in {"IDLE", "ACTIVE"} : SetScanState(s)
  \/ DataPath({GoodSection}, {0, 1}, ScanEffects)

SpecScan == Init /\ [][NextScan]_vars

\* Section gates: sections of every shape against tables of every flavour
SectionCalls ==
  { Call(2, 1, 1, "X", {}, 5),
    Call(2, 2, 1, "Y", {"MT_CRC", "MT_QUICKREQ"}, 5),
    [Call(2, 3, 1, "W", {"MT_CRC", "MT_FULL", "MT_FASTSWITCH"}, 5) EXCEPT !.mask = 254] }

\* tid, section_length, delivered bytes: exact, other table id, longer than
\* delivered, shorter than delivered, shorter than a CRC, shorter than a header
Sections ==
  { [ tid |-> 2, len |-> 5, r |-> 8, crc |-> 0 ],
    [ tid |-> 3, len |-> 5, r |-> 8, crc |-> 0 ],
    [ tid |-> 2, len |-> 9, r |-> 8, crc |-> 0 ],
    [ tid |-> 2, len |-> 2, r |-> 8, crc |-> 0 ],
    [ tid |-> 2, len |-> 2, r |-> 5, crc |-> 0 ],
    [ tid |-> 2, len |-> 5, r |-> 2, crc |-> 0 ] }

NextSection ==
  \/ \E a \in SectionCalls : AddQuiet(a)
  \/ SetScanState("ACTIVE")
  \/ DataPath(Sections, {-1, 0, 1}, {Completed})

SpecSection == Init /\ [][NextSection]_vars

\* Error paths: stuffing sections and failed checksums, up to the log limit
Assembling == [ complete |-> FALSE, working |-> TRUE, state |-> TRUE ]

\* one registration, in either of two flavours: the second call finds the
\* table of the first
ErrCalls ==
  { Call(2, 1, 1, "X", {"MT_CRC", "MT_QUICKREQ"}, 5),
    [Call(2, 1, 1, "X", {}, 5) EXCEPT !.mask = 254] }

\* stuffing of the exact length, stuffing with trailing data (and a failed
\* checksum), stuffing shorter than a header, a failed checksum, a good section
ErrSections ==
  { [ tid |-> 114, len |-> 5, r |-> 8, crc |-> 0 ],
    [ tid |-> 114, len |-> 4, r |-> 8, crc |-> 1 ],
    [ tid |-> 114, len |-> 0, r |-> 2, crc |-> 0 ],
    [ tid |-> 2, len |-> 5, r |-> 8, crc |-> 1 ],
    [ tid |-> 2, len |-> 5, r |-> 8, crc |-> 0 ] }

NextErr ==
  \/ \E a \in ErrCalls : AddQuiet(a)
  \/ SetScanState("ACTIVE")
  \/ DataPath(ErrSections, {-1, 0}, {Assembling, Completed})

SpecErr == Init /\ [][NextErr]_vars

\* Subscription: new tables under every combination of the control flags
SubsCalls ==
  { Call(2, 1, 1, "X", flags, pid) :
      flags \in SUBSET {"MT_SKIPSUBS", "MT_SCANSUBS"}, pid \in {-1, 5} }
  \cup { Call(2, 2, 1, "Y", {"MT_CRC", "MT_SCANSUBS"}, 5) }

NextSubs ==
  \/ \E a \in SubsCalls : Add(a)
  \/ \E t \in Handles : Destroy(t)
  \/ \E s \in {"IDLE", "ACTIVE"} : SetScanState(s)

SpecSubs == Init /\ [][NextSubs]_vars

\* Locking: every operation that takes mm_tables_lock, on every way out
LockCalls ==
  { Call(2, 1, 1, "X", {"MT_QUICKREQ"}, 5), Call(2, 2, 1, "Y", {"MT_QUICKREQ"}, 5) }

NextLock ==
  \/ \E a \in LockCalls : AddQuiet(a)
  \/ \E t \in Handles : DestroyQuiet(t)
  \/ FlushAllQuiet
  \/ SetScanState("ACTIVE")
  \/ DataPath({GoodSection}, {0}, {NoEffect, Completed})

SpecLock == Init /\ [][NextLock]_vars

(* ------------------------------------------------------------------ *)
(* Properties                                                          *)
(* ------------------------------------------------------------------ *)

Live == Range(mm.mm_tables)

\* the tables listed before x in s
Before(s, x) == { s[i] : i \in { j \in 1..Len(s) : \A k \in 1..j : s[k] # x } }

\* a control-path call completes in this step
CallStep == last'.seq # last.seq

(* C1: after every add, destroy and flush_all call the cached count         *)
(* mm_num_tables equals the length of the live list mm_tables, and no       *)
(* consistency check on the way has aborted the process.                    *)
C1_CountMatchesList ==
  /\ fault # "abort"
  /\ mm.mm_num_tables = Len(mm.mm_tables)

\* a destroy has deferred the close of one table and left another one live
C1_Witness ==
  /\ last.op = "destroy"
  /\ mm.mm_num_tables = 1
  /\ mm.mm_defer_tables # << >>

(* C2: when flush_all has returned, mm_tables is empty, mm_num_tables is 0  *)
(* and mm_defer_tables is empty, and none of its checks or its three exit   *)
(* assertions has failed.                                                   *)
C2_FlushAllPostcondition ==
  last.op = "flush_all" =>
    /\ fault = "none"
    /\ mm.mm_tables = << >>
    /\ mm.mm_num_tables = 0
    /\ mm.mm_defer_tables = << >>

\* flush_all has drained a queued entry of a table carrying MT_DEFER that was
\* also in the live list, and has closed it and another table
C2_Witness ==
  /\ last.op = "flush_all"
  /\ Len(last.log) >= 3
  /\ \E i, j \in DOMAIN last.log :
       /\ last.log[i].fn = "drain"
       /\ "MT_DEFER" \in last.log[i].flags
       /\ last.log[j].fn = "close_table"
       /\ last.log[j].mt = last.log[i].mt

\* the holders of a reference to t: the live list, each deferred-queue entry,
\* the dispatch call in flight
Holders(t) ==
  (IF t \in Live THEN 1 ELSE 0)
  + Cardinality({ i \in DOMAIN mm.mm_defer_tables : mm.mm_defer_tables[i] = t })
  + (IF dp.pc # "idle" /\ dp.mt = t THEN 1 ELSE 0)

(* C3: the table of a dispatch call in flight is allocated until the call   *)
(* has returned; a table is freed exactly when its last holder (live list,  *)
(* deferred queue, dispatch in flight) has let go, never twice and never    *)
(* while it is used.                                                        *)
C3_InFlightTableNotFreed ==
  /\ fault \notin {"double_free", "use_after_free"}
  /\ dp.pc # "idle" => mt[dp.mt].alloc = "alloc"
  /\ \A t \in Handles :
       IF mt[t].alloc = "alloc"
         THEN mt[t].mt_arefcount = Holders(t) /\ mt[t].mt_arefcount >= 1
         ELSE Holders(t) = 0

\* destroy has run while dispatch was in flight: the call holds the last reference
C3_Witness ==
  /\ dp.pc = "validate"
  /\ mt[dp.mt].alloc = "alloc"
  /\ mt[dp.mt].mt_destroyed
  /\ mt[dp.mt].mt_arefcount = 1
  /\ dp.mt \notin Live

\* the callback of the table in flight is invoked in this step
CallbackInvoked == dp.pc = "validate" /\ dp'.pc = "returned"

(* C4: once destroy (or flush_all) has returned for a table, its callback   *)
(* is not invoked any more.                                                 *)
C4_NoCallbackAfterDestroy ==
  [][CallbackInvoked => ~mt[dp.mt].mt_destroyed]_vars

(* C5: a dispatch call that finds mt_destroyed set at its entry test        *)
(* returns at once: no callback, no change of any table (mt_count), no      *)
(* fast-switch evaluation; and a call on its way out changes no table's     *)
(* mt_count before the input thread is idle again.                          *)
C5_DestroyedDispatchIsNoop ==
  /\ [][(dp.pc = "enter" /\ dp' # dp /\ mt[dp.mt].mt_destroyed) =>
          /\ dp'.pc = "leave"
          /\ dp'.exit = "destroyed"
          /\ mt' = mt
          /\ scan_done' = scan_done]_vars
  /\ [][(dp.pc = "leave" /\ dp' # dp) =>
          /\ dp'.pc = "idle"
          /\ scan_done' = scan_done
          /\ \A t \in Handles :
               mt'[t].alloc = "alloc" => mt'[t].mt_count = mt[t].mt_count]_vars

\* a dispatch call has left through the entry test
C5_Witness ==
  /\ dp.pc = "leave"
  /\ dp.exit = "destroyed"
  /\ mt[dp.mt].mt_destroyed
  /\ mt[dp.mt].mt_count = 0

ScanRelevant(e) == "MT_QUICKREQ" \in e.mt_flags \/ e.mt_working

AllRelevantComplete ==
  \A t \in Live : ScanRelevant(mt[t]) => mt[t].mt_complete /\ ~mt[t].mt_working

(* C6: the scan of fast-switch passes only in a state in which every live   *)
(* table that is quick-required or working is complete and not working, and *)
(* scan completion is signalled only by a call whose scan has passed.       *)
C6_ScanDoneOnlyWhenAllComplete ==
  /\ [][(dp'.pc = "fs_done" /\ dp.pc # "fs_done") =>
          dp.pc = "fs_scan" /\ AllRelevantComplete]_vars
  /\ [][(scan_done' /\ ~scan_done) => dp.pc = "fs_done"]_vars

\* scan completion was signalled by a call that found two quick-required
\* tables live, both complete and not working
C6_Witness ==
  /\ scan_done
  /\ dp.pc = "leave"
  /\ dp.exit = "scan_done"
  /\ Cardinality({ t \in Live : "MT_QUICKREQ" \in mt[t].mt_flags }) >= 2
  /\ AllRelevantComplete
  /\ \A t \in Live : mt[t].mt_count >= 1

SameOwnerPid(t, u) ==
  /\ mt[t].mt_pid >= 0
  /\ mt[t].mt_opaque = mt[u].mt_opaque
  /\ mt[t].mt_pid = mt[u].mt_pid

(* C7, as claimed: at most one live table per (owner, pid) with pid >= 0.   *)
C7_OnePerOwnerPid ==
  \A t, u \in Live : SameOwnerPid(t, u) => t = u

(* C7, amended: at most one live table per (owner, pid, callback, name)     *)
(* with pid >= 0: live tables that share owner and pid differ in callback   *)
(* or in name.                                                              *)
C7_OnePerOwnerPidCallbackName ==
  \A t, u \in Live :
    ( /\ SameOwnerPid(t, u)
      /\ mt[t].mt_callback = mt[u].mt_callback
      /\ mt[t].mt_name = mt[u].mt_name ) => t = u

\* two live tables of one owner on one pid and under one name, with
\* different callbacks
C7_Witness ==
  \E t, u \in Live :
    /\ t # u
    /\ SameOwnerPid(t, u)
    /\ mt[t].mt_name = mt[u].mt_name
    /\ mt[t].mt_callback # mt[u].mt_callback

(* C8: at most one live table with pid < 0 per (owner, name).               *)
C8_OneUnboundPerOwnerName ==
  \A t, u \in Live :
    ( /\ mt[t].mt_pid < 0
      /\ mt[u].mt_pid < 0
      /\ mt[t].mt_opaque = mt[u].mt_opaque
      /\ mt[t].mt_name = mt[u].mt_name ) => t = u

\* an add with pid < 0 has met the unbound entry of that name again and left
\* it unbound, with a second table live
C8_Witness ==
  /\ last.op = "add"
  /\ last.args.pid < 0
  /\ ~last.created
  /\ last.log # << >>
  /\ mt[last.ret].mt_pid < 0
  /\ Len(mm.mm_tables) = 2

\* an add with pid >= 0 completes right after an add of the same owner and
\* name with pid < 0
C9Case == CallStep /\ last'.after = "unbound_then_pid"

\* the second call has rebound the entry the first call returned
C9Rebound ==
  /\ last'.ret = last.ret
  /\ mt'[last.ret].mt_pid = last'.args.pid
  /\ mt'[last.ret].mt_callback = last'.args.callback
  /\ mt'[last.ret].mt_table = last'.args.tableid
  /\ mm'.mm_num_tables = mm.mm_num_tables
  /\ Cardinality({ t \in Range(mm'.mm_tables) :
                     /\ mt'[t].mt_opaque = last'.args.opaque
                     /\ mt'[t].mt_name = last'.args.name }) = 1

\* the first call returned an unbound entry, and the scan of the second call
\* reaches it: no table listed before it has the owner, pid and callback asked for
C9Reached ==
  /\ mt[last.ret].mt_pid < 0
  /\ \A t \in Before(mm.mm_tables, last.ret) :
       ~( /\ mt[t].mt_opaque = last'.args.opaque
          /\ mt[t].mt_pid = last'.args.pid
          /\ mt[t].mt_callback = last'.args.callback )

(* C9, as claimed: add(O, pid < 0, X) followed by add(O, p >= 0, X) returns *)
(* the same handle, rebound to p (callback and table id overwritten too),   *)
(* leaves the count alone and leaves exactly one live table of O named X.   *)
C9_RebindAlways == [][C9Case => C9Rebound]_vars

(* C9, amended: the same, provided the first call returned an unbound entry *)
(* and no live table of O listed before it has pid p and the callback of    *)
(* the second call.                                                         *)
C9_RebindWhenReached == [][(C9Case /\ C9Reached) => C9Rebound]_vars

\* the second call of such a pair has rebound an entry, with another table live
C9_Witness ==
  /\ last.op = "add"
  /\ last.after = "unbound_then_pid"
  /\ ~last.created
  /\ last.log # << >>
  /\ mt[last.ret].mt_pid = last.args.pid
  /\ mt[last.ret].mt_table = 3
  /\ Len(mm.mm_tables) = 2

\* an add with pid >= 0 completes right after an add of the same owner and pid
C10Case ==
  /\ CallStep
  /\ last.op = "add"
  /\ last'.op = "add"
  /\ last'.args.opaque = last.args.opaque
  /\ last'.args.pid = last.args.pid
  /\ last.args.pid >= 0

\* the second call has returned the entry of the first and touched nothing
C10Same ==
  /\ last'.ret = last.ret
  /\ mt' = mt
  /\ mm' = mm
  /\ last'.log = << >>

\* an entry the scan of the second call stops at
C10Match ==
  \E t \in Live :
    /\ mt[t].mt_opaque = last'.args.opaque
    /\ \/ mt[t].mt_pid < 0 /\ mt[t].mt_name = last'.args.name
       \/ mt[t].mt_pid = last'.args.pid /\ mt[t].mt_callback = last'.args.callback

(* C10, as claimed: of two add calls with the same owner and pid >= 0, the  *)
(* second returns the same handle, changes nothing and opens nothing when   *)
(* the callbacks are equal, and returns a distinct, newly created table     *)
(* when they differ.                                                        *)
C10_SameOrNew ==
  [][C10Case =>
       IF last'.args.callback = last.args.callback
         THEN C10Same
         ELSE last'.ret # last.ret /\ last'.created]_vars

(* C10, amended: with equal callbacks and equal names the second call       *)
(* returns the same handle, changes nothing and opens nothing; with a       *)
(* different callback it returns a distinct table bound to that callback,   *)
(* newly created when no live table of the owner is unbound under the       *)
(* requested name or has that pid and callback already.                     *)
C10_SameOrDistinct ==
  [][C10Case =>
       /\ ( /\ last'.args.callback = last.args.callback
            /\ last'.args.name = last.args.name ) => C10Same
       /\ last'.args.callback # last.args.callback =>
            /\ last'.ret # last.ret
            /\ mt'[last'.ret].mt_callback = last'.args.callback
            /\ ~C10Match => last'.created]_vars

\* the second of two equal add calls has returned without a collaborator call
C10_Witness ==
  /\ last.op = "add"
  /\ last.after = "repeated"
  /\ ~last.created
  /\ last.log = << >>
  /\ mt[last.ret].mt_pid = last.args.pid
  /\ mt[last.ret].mt_callback = last.args.callback

\* a dispatch call on its way out only returns to its caller: no table's
\* mt_count changes and scan completion is not signalled
ReturnsToCaller ==
  (dp.pc = "leave" /\ dp' # dp) =>
    /\ dp'.pc = "idle"
    /\ scan_done' = scan_done
    /\ \A t \in Handles :
         mt'[t].alloc = "alloc" => mt'[t].mt_count = mt[t].mt_count

\* the step after the callback has returned
ResultStep == dp.pc = "returned" /\ dp' # dp

(* C11: after the callback has returned, a negative result leaves mt_count  *)
(* alone and does not lead to fast-switch evaluation; 0 adds one to mt_count *)
(* and leads to fast-switch evaluation exactly when the table has            *)
(* MT_QUICKREQ or MT_FASTSWITCH; a positive result adds one to mt_count and  *)
(* does not lead to fast-switch evaluation.                                  *)
C11_ResultDecidesCountAndFastswitch ==
  [][ResultStep =>
       LET e == mt[dp.mt]
           counted == mt'[dp.mt].mt_count = e.mt_count + 1
           same == mt'[dp.mt].mt_count = e.mt_count
           evaluated == dp'.pc = "fastswitch"
           returned == dp'.pc = "leave" /\ dp'.exit = "done"
       IN /\ dp.ret < 0 => same /\ returned
          /\ dp.ret = 0 =>
               /\ counted
               /\ IF e.mt_flags \cap {"MT_QUICKREQ", "MT_FASTSWITCH"} # {}
                    THEN evaluated ELSE returned
          /\ dp.ret > 0 => counted /\ returned]_vars

\* a callback of a fast-switch table has returned 0: counted, and fast-switch
\* evaluation is entered
C11_Witness ==
  /\ dp.pc = "fastswitch"
  /\ dp.ret = 0
  /\ "MT_FASTSWITCH" \in mt[dp.mt].mt_flags
  /\ mt[dp.mt].mt_count = 1

\* the section in flight does not match the table's id under its mask
MaskMismatch == BitAnd(dp.sec.tid, mt[dp.mt].mt_mask) # mt[dp.mt].mt_table

(* C13: a section whose table id does not satisfy (tid & mt_mask) = mt_table *)
(* is dropped: the call returns without invoking the callback, mt_count and  *)
(* the state the callback sets are unchanged, fast-switch is not evaluated.  *)
C13_MaskMismatchDropped ==
  /\ [][(dp.pc = "validate" /\ dp' # dp /\ MaskMismatch) =>
          /\ dp'.pc = "leave"
          /\ mt'[dp.mt].mt_count = mt[dp.mt].mt_count
          /\ mt'[dp.mt].mt_complete = mt[dp.mt].mt_complete
          /\ scan_done' = scan_done]_vars
  /\ [][ReturnsToCaller]_vars

\* a section with table id 3 was dropped by a table of pattern 2, mask 255
C13_Witness ==
  /\ dp.pc = "leave"
  /\ dp.exit = "mask"
  /\ dp.sec.tid = 3
  /\ mt[dp.mt].mt_table = 2
  /\ mt[dp.mt].mt_mask = 255
  /\ mt[dp.mt].mt_count = 0

\* the bytes delivered from the pointer the callback is given
CallbackAvail ==
  IF "MT_FULL" \in mt[dp.mt].mt_flags THEN dp.sec.r ELSE dp.sec.r - 3

(* C18: whenever the callback is invoked, the length it is given is not     *)
(* negative and not more than the bytes delivered from the pointer it is    *)
(* given (r for MT_FULL tables, r - 3 otherwise).                           *)
C18_CallbackLengthInBounds ==
  [][CallbackInvoked => (dp'.len >= 0 /\ dp'.len <= CallbackAvail)]_vars

\* the section in flight fails the checksum of a table that requires one
CrcFails == "MT_CRC" \in mt[dp.mt].mt_flags /\ dp.sec.crc # 0

(* C12: for a table with MT_CRC, a section whose CRC-32 over the delivered  *)
(* bytes is not zero is never handed to the callback: the call returns,     *)
(* mt_count does not change, and nothing the callback would set changes.    *)
C12_CrcFailureDropped ==
  /\ [][(dp.pc = "validate" /\ dp' # dp /\ CrcFails) =>
          /\ dp'.pc = "leave"
          /\ mt'[dp.mt].mt_count = mt[dp.mt].mt_count
          /\ mt'[dp.mt].mt_working = mt[dp.mt].mt_working
          /\ scan_done' = scan_done]_vars
  /\ [][ReturnsToCaller]_vars

\* a section of the table's own id was turned away for its checksum
C12_Witness ==
  /\ dp.pc = "leave"
  /\ dp.exit = "crc"
  /\ dp.sec.tid = mt[dp.mt].mt_table
  /\ mt[dp.mt].mt_err_count >= 1
  /\ mt[dp.mt].mt_count = 0

\* section_length differs from total_length - 3
TrailingData == dp.sec.len # dp.sec.r - 3

(* C17: a section with table id 0x72 is never handed to the callback and    *)
(* never changes mt_count, whatever the table's pattern, mask and MT_CRC;   *)
(* it always resets the reassembly state; the error log is asked exactly    *)
(* when section_length differs from total_length - 3: the occurrence is     *)
(* counted every time and a warning is written for the first 10 per table.  *)
C17_StuffingResetsAndWarns ==
  /\ [][(dp.pc = "validate" /\ dp' # dp /\ dp.sec.tid = 114) =>
          LET e == mt[dp.mt]
              f == mt'[dp.mt]
          IN /\ dp'.pc = "leave"
             /\ dp'.exit = "stuffing"
             /\ f.mt_count = e.mt_count
             /\ f.mt_working = e.mt_working
             /\ ~f.mt_state
             /\ f.mt_err_count = e.mt_err_count + (IF TrailingData THEN 1 ELSE 0)
             /\ f.mt_warnings = e.mt_warnings +
                  (IF TrailingData /\ e.mt_err_count < LogLimit THEN 1 ELSE 0)
             /\ scan_done' = scan_done]_vars
  /\ [][ReturnsToCaller]_vars
  /\ [](\A t \in Handles : mt[t].mt_warnings <= LogLimit)

\* the eleventh stuffing section with trailing data on a table without MT_CRC:
\* counted, not logged, and the state the callback had built is reset
C17_Witness ==
  /\ dp.pc = "leave"
  /\ dp.exit = "stuffing"
  /\ "MT_CRC" \notin mt[dp.mt].mt_flags
  /\ mt[dp.mt].mt_mask = 254
  /\ mt[dp.mt].mt_err_count = 11
  /\ mt[dp.mt].mt_warnings = 10
  /\ mt[dp.mt].mt_working
  /\ ~mt[dp.mt].mt_state

(* C14: a table whose mt_destroyed is set is never in the live list         *)
(* mm_tables; what the list holds is allocated and not destroyed.           *)
C14_DestroyedNotLive ==
  \A t \in Live : mt[t].alloc = "alloc" /\ ~mt[t].mt_destroyed

\* a destroyed table that is kept allocated by the deferred queue, and out of
\* the list, with another table live
C14_Witness ==
  /\ last.op = "destroy"
  /\ mt[last.args.mt].alloc = "alloc"
  /\ mt[last.args.mt].mt_destroyed
  /\ last.args.mt \notin Live
  /\ Live # {}

\* what a new table is to be opened with
WantSubscribed(a) ==
  /\ a.pid >= 0
  /\ "MT_SKIPSUBS" \notin a.flags
  /\ ~("MT_SCANSUBS" \in a.flags /\ mm.mm_scan_state = "IDLE")

(* C15: an add that creates a table makes one open_table call, for that     *)
(* table, with want_subscribed true exactly when pid >= 0, MT_SKIPSUBS is   *)
(* absent and not (MT_SCANSUBS is set while the scan state is idle); the    *)
(* table's flags are the requested ones without MT_SKIPSUBS and MT_SCANSUBS. *)
C15_NewTableSubscription ==
  [][(CallStep /\ last'.op = "add" /\ last'.created) =>
       /\ Len(last'.log) = 1
       /\ last'.log[1].fn = "open_table"
       /\ last'.log[1].mt = last'.ret
       /\ last'.log[1].subscribe = WantSubscribed(last'.args)
       /\ mt'[last'.ret].mt_flags =
            last'.args.flags \ {"MT_SKIPSUBS", "MT_SCANSUBS"}]_vars

\* a table asked for with MT_SCANSUBS was created during a scan: opened
\* subscribed, the control bit not stored
C15_Witness ==
  /\ last.op = "add"
  /\ last.created
  /\ last.args.flags = {"MT_CRC", "MT_SCANSUBS"}
  /\ last.log[1].subscribe
  /\ mt[last.ret].mt_subscribed
  /\ mt[last.ret].mt_flags = {"MT_CRC"}

(* C16: flush_all first takes every entry off the deferred queue, in order, *)
(* without calling close_table, and releases it; only then it calls          *)
(* close_table, once for each table of the live list, in order, each with    *)
(* MT_DEFER cleared; afterwards no table is left allocated.                  *)
C16_DrainBypassesClose ==
  [][(CallStep /\ last'.op = "flush_all") =>
       LET log == last'.log
           nd == Len(mm.mm_defer_tables)
           nl == Len(mm.mm_tables)
       IN /\ Len(log) = nd + nl
          /\ \A i \in 1..nd :
               /\ log[i].fn = "drain"
               /\ log[i].mt = mm.mm_defer_tables[i]
          /\ \A i \in 1..nl :
               /\ log[nd + i].fn = "close_table"
               /\ log[nd + i].mt = mm.mm_tables[i]
               /\ "MT_DEFER" \notin log[nd + i].flags
          /\ \A t \in Handles : mt'[t].alloc = "free"]_vars

\* flush_all has drained the entry of a table that was no longer live (never
\* closed by this call) and has closed a live one
C16_Witness ==
  /\ last.op = "flush_all"
  /\ \E i, j \in DOMAIN last.log :
       /\ last.log[i].fn = "drain"
       /\ last.log[j].fn = "close_table"
       /\ \A k \in DOMAIN last.log :
            last.log[k].fn = "close_table" => last.log[k].mt # last.log[i].mt

(* C19: no operation leaves mm_tables_lock held: after add (new table or    *)
(* early return on a match), destroy, flush_all and the scan of fast-switch  *)
(* (run to the end or given up) the lock is free, so no later operation      *)
(* blocks on it for ever, no lock assertion fails, and scan completion is    *)
(* signalled with the lock free.                                             *)
C19_LockAlwaysReleased ==
  /\ mm.mm_tables_lock = "free"
  /\ fault \notin {"deadlock", "lock_assert"}

\* fast-switch has given up on an incomplete table, with two tables live, and
\* the lock is free
C19_Witness ==
  /\ dp.pc = "leave"
  /\ dp.exit = "not_complete"
  /\ Len(mm.mm_tables) = 2
  /\ mm.mm_tables_lock = "free"

(* C20: add never asks open_table to subscribe a table whose pid, after the *)
(* call's updates, is negative.                                             *)
C20_NoSubscribeWithoutPid ==
  last.op = "add" =>
    \A i \in DOMAIN last.log :
      (last.log[i].fn = "open_table" /\ last.log[i].subscribe) => last.log[i].pid >= 0

====
